---- MODULE Spec2Model ----
(***************************************************************************)
(* Model of the language-learning API of src/main.py: the request handlers *)
(* over the four document collections user, course, lesson and exercise.   *)
(*                                                                         *)
(* Strings that the code takes apart or converts (identifier strings,      *)
(* answers) are sequences of one-character strings; opaque strings (names, *)
(* prompts, codes) are TLA+ strings.  An Optional value is <<>> for None   *)
(* and <<v>> for a present value v.  An ObjectId is a natural number below *)
(* 16^IdLen and its string form is its IdLen lower-case hex digits.        *)
(***************************************************************************)
EXTENDS Integers, Sequences, FiniteSets, TLC

VARIABLES db, nextId, req, resp, calls, creates, seedRun, procs

vars == <<db, nextId, req, resp, calls, creates, seedRun, procs>>

-----------------------------------------------------------------------------
(* Bounds of the model *)

\* width of an identifier string (24 hex digits in bson, scaled down)
IdLen == 2
\* the first ObjectId the driver generates (20 is "14"; 26 is "1a")
FirstId == 26
\* documents the clients may create in one behaviour, the seeder's apart
MaxCreates == 2
\* the count of consecutive seed calls is tracked up to this many
MaxSeedRun == 2
\* seed requests each concurrent client issues
MaxSeedCalls == 2

-----------------------------------------------------------------------------
(* Sequences and optional values *)

Range(s) == {s[i] : i \in DOMAIN s}

None == <<>>

Some(v) == <<v>>

-----------------------------------------------------------------------------
(* Python str.strip() and str.lower() on character sequences *)

Whitespace == {" ", "\t", "\n"}

Uppers == <<"A", "B", "C", "D", "E", "F", "H", "L", "O", "T">>

Lowers == <<"a", "b", "c", "d", "e", "f", "h", "l", "o", "t">>

lowerChar(c) ==
    IF \E i \in DOMAIN Uppers : Uppers[i] = c
    THEN Lowers[CHOOSE i \in DOMAIN Uppers : Uppers[i] = c]
    ELSE c

lower(s) == [i \in DOMAIN s |-> lowerChar(s[i])]

RECURSIVE lstrip(_)
lstrip(s) ==
    IF s # <<>> /\ Head(s) \in Whitespace THEN lstrip(Tail(s)) ELSE s

RECURSIVE rstrip(_)
rstrip(s) ==
    IF s # <<>> /\ s[Len(s)] \in Whitespace
    THEN rstrip(SubSeq(s, 1, Len(s) - 1))
    ELSE s

strip(s) == rstrip(lstrip(s))

-----------------------------------------------------------------------------
(* bson.ObjectId: str(ObjectId) and ObjectId(str) *)

HexDigits ==
    <<"0", "1", "2", "3", "4", "5", "6", "7",
      "8", "9", "a", "b", "c", "d", "e", "f">>

RECURSIVE Pow16(_)
Pow16(n) == IF n = 0 THEN 1 ELSE 16 * Pow16(n - 1)

\* str(oid): fixed width, lower-case hex (binascii.hexlify)
str(n) ==
    [i \in 1..IdLen |-> HexDigits[((n \div Pow16(IdLen - i)) % 16) + 1]]

\* value of one hex digit, either case (bytes.fromhex); -1 when it is none
HexVal(c) ==
    LET lc == lowerChar(c)
    IN  IF \E i \in DOMAIN HexDigits : HexDigits[i] = lc
        THEN (CHOOSE i \in DOMAIN HexDigits : HexDigits[i] = lc) - 1
        ELSE -1

RECURSIVE HexNum(_)
HexNum(s) ==
    IF s = <<>> THEN 0
    ELSE 16 * HexNum(SubSeq(s, 1, Len(s) - 1)) + HexVal(s[Len(s)])

\* ObjectId(id_str) raises InvalidId unless id_str is IdLen hex digits
ObjectIdValid(s) ==
    Len(s) = IdLen /\ \A i \in DOMAIN s : HexVal(s[i]) >= 0

ObjectId(s) == HexNum(s)

-----------------------------------------------------------------------------
(* The document store: db maps a collection name to the sequence of its    *)
(* documents in insertion order; S == [db, nextId] is the store together   *)
(* with the next ObjectId the driver will generate.                        *)

Collections == {"user", "course", "lesson", "exercise"}

Store(d, n) == [db |-> d, nextId |-> n]

\* dict.get(key, default)
Get(doc, key, default) == IF key \in DOMAIN doc THEN doc[key] ELSE default

\* an equality filter matches a document that carries every key with its value
Matches(doc, filter) ==
    \A k \in DOMAIN filter : k \in DOMAIN doc /\ doc[k] = filter[k]

\* collection.insert_one(doc): the driver adds "_id" to the dict it is handed
\* (the caller's dict is mutated in place) and appends the document
insert_one(S, coll, doc) ==
    LET stored == ("_id" :> S.nextId) @@ doc
    IN  [S |-> Store([S.db EXCEPT ![coll] = Append(@, stored)], S.nextId + 1),
         inserted_id |-> S.nextId,
         doc |-> stored]

\* collection.insert_many(docs)
RECURSIVE insert_many(_, _, _)
insert_many(S, coll, docs) ==
    IF docs = <<>> THEN S
    ELSE insert_many(insert_one(S, coll, Head(docs)).S, coll, Tail(docs))

\* collection.find_one(filter): the first match in natural order, or None
find_one(S, coll, filter) ==
    LET hits == SelectSeq(S.db[coll], LAMBDA d : Matches(d, filter))
    IN  IF hits = <<>> THEN None ELSE Some(Head(hits))

\* collection.count_documents(filter)
count_documents(S, coll, filter) ==
    Len(SelectSeq(S.db[coll], LAMBDA d : Matches(d, filter)))

\* database.create_document(collection, data): inserts one document and
\* returns the string form of its new identifier
create_document(S, coll, data) ==
    LET r == insert_one(S, coll, data)
    IN  [S |-> r.S, id |-> str(r.inserted_id)]

\* database.get_documents(collection, filter): every matching document
get_documents(S, coll, filter) ==
    SelectSeq(S.db[coll], LAMBDA d : Matches(d, filter))

NoFilter == <<>>

-----------------------------------------------------------------------------
(* What a handler yields: the store afterwards, the HTTP status, the body  *)
(* it returns (before serialisation) and the store calls it made, in order *)

Reply(S, status, body, log) ==
    [db |-> S.db, nextId |-> S.nextId, status |-> status, body |-> body,
     calls |-> log]

\* raise HTTPException(status_code, detail)
HTTPException(S, status, detail, log) ==
    Reply(S, status, [detail |-> detail], log)

\* oid without the except clause: every string goes on to the lookup
oid_unchecked(id_str) == [ok |-> TRUE, value |-> ObjectId(id_str)]

\* oid(id_str): the ObjectId, or the 400 of line 88
oid(id_str) ==
    IF ObjectIdValid(id_str)
    THEN [ok |-> TRUE, value |-> ObjectId(id_str)]
    ELSE [ok |-> FALSE, status |-> 400, detail |-> "Invalid id"]

\* doc["id"] = str(doc["_id"]): the raw key is read and left in place
ShapeDoc_keep_raw(doc) == doc @@ ("id" :> str(doc["_id"]))

\* doc["id"] = str(doc.pop("_id"))
ShapeDoc(doc) ==
    LET rest == [k \in (DOMAIN doc) \ {"_id"} |-> doc[k]]
    IN  rest @@ ("id" :> str(doc["_id"]))

ShapeAll(items) == [i \in DOMAIN items |-> ShapeDoc(items[i])]

create_user(S, payload) ==
    LET user == [username |-> payload.username, name |-> payload.name,
                 xp |-> 0, streak |-> 0]
        r    == insert_one(S, "user", user)
    IN  \* {"id": str(user_id), **user}, user being the dict insert_one changed
        Reply(r.S, 200, ("id" :> str(r.inserted_id)) @@ r.doc,
              <<"user.insert_one">>)

list_courses(S) ==
    Reply(S, 200, ShapeAll(get_documents(S, "course", NoFilter)),
          <<"course.find">>)

create_course(S, payload) ==
    LET r == create_document(S, "course", payload)
    IN  Reply(r.S, 200, ("id" :> r.id) @@ payload, <<"course.insert_one">>)

list_lessons(S, course_id) ==
    Reply(S, 200,
          ShapeAll(get_documents(S, "lesson", [course_id |-> course_id])),
          <<"lesson.find">>)

create_lesson(S, payload) ==
    LET r == create_document(S, "lesson", payload)
    IN  Reply(r.S, 200, ("id" :> r.id) @@ payload, <<"lesson.insert_one">>)

list_exercises(S, lesson_id) ==
    Reply(S, 200,
          ShapeAll(get_documents(S, "exercise", [lesson_id |-> lesson_id])),
          <<"exercise.find">>)

ExerciseTypes == {"mcq", "translate"}

\* create_exercise without the check of the type
create_exercise_any_type(S, payload) ==
    LET r == create_document(S, "exercise", payload)
    IN  Reply(r.S, 200, ("id" :> r.id) @@ payload, <<"exercise.insert_one">>)

\* create_exercise storing the answer trimmed and lower-cased
create_exercise_normalised(S, payload) ==
    IF payload.type \notin ExerciseTypes
    THEN HTTPException(S, 400, "Invalid exercise type", <<>>)
    ELSE LET r == create_document(S, "exercise",
                      [payload EXCEPT !.answer = lower(strip(@))])
         IN  Reply(r.S, 200, ("id" :> r.id) @@ payload,
                   <<"exercise.insert_one">>)

create_exercise(S, payload) ==
    IF payload.type \notin ExerciseTypes
    THEN HTTPException(S, 400, "Invalid exercise type", <<>>)
    ELSE LET r == create_document(S, "exercise", payload)
         IN  Reply(r.S, 200, ("id" :> r.id) @@ payload,
                   <<"exercise.insert_one">>)

\* the comparison without .lower()
SameAnswer_case_sensitive(a, b) == strip(a) = strip(b)

\* str(a).strip().lower() == str(b).strip().lower()
SameAnswer(a, b) == lower(strip(a)) = lower(strip(b))

\* submit_answer without the 404: a missing exercise is graded as wrong
submit_answer_no_404(S, payload) ==
    LET key == oid(payload.exercise_id)
    IN  IF ~key.ok
        THEN HTTPException(S, key.status, key.detail, <<>>)
        ELSE LET ex == find_one(S, "exercise", ("_id" :> key.value))
                 doc == IF ex = None THEN <<>> ELSE ex[1]
             IN  Reply(S, 200,
                       [correct |-> SameAnswer(payload.answer,
                                               Get(doc, "answer", <<>>)),
                        expected |-> Get(doc, "answer", None)],
                       <<"exercise.find_one">>)

submit_answer(S, payload) ==
    LET key == oid(payload.exercise_id)
    IN  IF ~key.ok
        THEN HTTPException(S, key.status, key.detail, <<>>)
        ELSE LET ex == find_one(S, "exercise", ("_id" :> key.value))
             IN  IF ex = None
                 THEN HTTPException(S, 404, "Exercise not found",
                                    <<"exercise.find_one">>)
                 ELSE Reply(S, 200,
                            [correct |-> SameAnswer(payload.answer,
                                                    Get(ex[1], "answer", <<>>)),
                             expected |-> Get(ex[1], "answer", None)],
                            <<"exercise.find_one">>)

-----------------------------------------------------------------------------
(* seed_demo, one store call at a time.  A frame holds the locals of one   *)
(* running call and pc, the store call it makes next.                      *)

Hola == <<"H", "o", "l", "a">>

ThankYou == <<"T", "h", "a", "n", "k", " ", "y", "o", "u">>

SeedCourse == [name |-> "Spanish", code |-> "es", base_language |-> "en"]

SeedLesson(course_id) ==
    [course_id |-> str(course_id), title |-> "Basics 1", order |-> 1]

SeedExercises(lesson_id) ==
    << [lesson_id |-> str(lesson_id), type |-> "mcq",
        prompt |-> "How do you say 'Hello' in Spanish?",
        options |-> Some(<<"Hola", "Adios", "Gracias">>), answer |-> Hola],
       [lesson_id |-> str(lesson_id), type |-> "translate",
        prompt |-> "Translate: Gracias", answer |-> ThankYou] >>

NewFrame ==
    [pc |-> "find_course", course |-> None, course_id |-> None,
     lesson |-> None, lesson_id |-> None, count |-> None]

\* line 152 with a filter no course matches: the course is always inserted
SeedFindCourse_no_match(S, f) ==
    LET course == find_one(S, "course", [code |-> "ES"])
    IN  [S |-> S, call |-> "course.find_one",
         f |-> IF course = None
               THEN [f EXCEPT !.course = course, !.pc = "insert_course"]
               ELSE [f EXCEPT !.course = course,
                              !.course_id = Some(course[1]["_id"]),
                              !.pc = "find_lesson"]]

\* line 152, and line 156 when the course is there
SeedFindCourse(S, f) ==
    LET course == find_one(S, "course", [code |-> "es"])
    IN  [S |-> S, call |-> "course.find_one",
         f |-> IF course = None
               THEN [f EXCEPT !.course = course, !.pc = "insert_course"]
               ELSE [f EXCEPT !.course = course,
                              !.course_id = Some(course[1]["_id"]),
                              !.pc = "find_lesson"]]

\* line 154
SeedInsertCourse(S, f) ==
    LET r == insert_one(S, "course", SeedCourse)
    IN  [S |-> r.S, call |-> "course.insert_one",
         f |-> [f EXCEPT !.course_id = Some(r.inserted_id),
                         !.pc = "find_lesson"]]

\* line 158, and line 162 when the lesson is there
SeedFindLesson(S, f) ==
    LET lesson == find_one(S, "lesson",
                           [course_id |-> str(f.course_id[1]), order |-> 1])
    IN  [S |-> S, call |-> "lesson.find_one",
         f |-> IF lesson = None
               THEN [f EXCEPT !.lesson = lesson, !.pc = "insert_lesson"]
               ELSE [f EXCEPT !.lesson = lesson,
                              !.lesson_id = Some(lesson[1]["_id"]),
                              !.pc = "count_exercises"]]

\* line 160
SeedInsertLesson(S, f) ==
    LET r == insert_one(S, "lesson", SeedLesson(f.course_id[1]))
    IN  [S |-> r.S, call |-> "lesson.insert_one",
         f |-> [f EXCEPT !.lesson_id = Some(r.inserted_id),
                         !.pc = "count_exercises"]]

\* line 164 without the comparison: the exercises are always inserted
SeedCountExercises_unchecked(S, f) ==
    LET n == count_documents(S, "exercise",
                             [lesson_id |-> str(f.lesson_id[1])])
    IN  [S |-> S, call |-> "exercise.count_documents",
         f |-> [f EXCEPT !.count = Some(n), !.pc = "insert_many"]]

\* line 164
SeedCountExercises(S, f) ==
    LET n == count_documents(S, "exercise",
                             [lesson_id |-> str(f.lesson_id[1])])
    IN  [S |-> S, call |-> "exercise.count_documents",
         f |-> [f EXCEPT !.count = Some(n),
                         !.pc = IF n = 0 THEN "insert_many" ELSE "return"]]

\* lines 165-169
SeedInsertMany(S, f) ==
    [S |-> insert_many(S, "exercise", SeedExercises(f.lesson_id[1])),
     call |-> "exercise.insert_many",
     f |-> [f EXCEPT !.pc = "return"]]

\* the next store call of a running seed_demo
SeedStep(S, f) ==
    CASE f.pc = "find_course"     -> SeedFindCourse(S, f)
      [] f.pc = "insert_course"   -> SeedInsertCourse(S, f)
      [] f.pc = "find_lesson"     -> SeedFindLesson(S, f)
      [] f.pc = "insert_lesson"   -> SeedInsertLesson(S, f)
      [] f.pc = "count_exercises" -> SeedCountExercises(S, f)
      [] f.pc = "insert_many"     -> SeedInsertMany(S, f)

\* line 171
SeedReturn(f) ==
    [seeded |-> TRUE, course_id |-> str(f.course_id[1]),
     lesson_id |-> str(f.lesson_id[1])]

RECURSIVE RunSeed(_, _, _)
RunSeed(S, f, log) ==
    IF f.pc = "return" THEN Reply(S, 200, SeedReturn(f), log)
    ELSE LET r == SeedStep(S, f)
         IN  RunSeed(r.S, r.f, Append(log, r.call))

\* a seed_demo request that runs to completion on its own
seed_demo(S) == RunSeed(S, NewFrame, <<>>)

-----------------------------------------------------------------------------
(* The other two routes *)

\* GET /
read_root(S) == Reply(S, 200, [message |-> "Language Learning API running"], <<>>)

\* GET /test: db.list_collection_names()[:10]; a collection exists once it
\* holds a document
test_database(S) ==
    Reply(S, 200,
          [backend |-> "Running", connection_status |-> "Connected",
           collections |-> {c \in Collections : S.db[c] # <<>>}],
          <<"list_collection_names">>)

-----------------------------------------------------------------------------------------------------------------------------------------------------
(* Requests the clients send *)

upperChar(c) ==
    IF \E i \in DOMAIN Lowers : Lowers[i] = c
    THEN Uppers[CHOOSE i \in DOMAIN Lowers : Lowers[i] = c]
    ELSE c

upper(s) == [i \in DOMAIN s |-> upperChar(s[i])]

\* identifier strings of the documents a collection holds: ObjectIds are
\* generated fresh, so no client holds one before the store hands it out
IdsOf(S, coll) == {str(d["_id"]) : d \in Range(S.db[coll])}

\* a reference to no document at all
Dangling == <<"n", "o", "n", "e">>

Hi == <<" ", "h", "I", "\t">>

UserPayloads == {[username |-> "ana", name |-> Some("Ana")]}

CoursePayloads ==
    {[name |-> "Spanish", code |-> "es", base_language |-> "en"],
     [name |-> "French", code |-> "fr", base_language |-> "en"]}

\* a lesson of order 1 under each stored course or under none, and one of
\* negative order
LessonPayloads(S) ==
    {[course_id |-> c, title |-> "Intro", order |-> 1] :
        c \in IdsOf(S, "course") \cup {Dangling}}
    \cup {[course_id |-> Dangling, title |-> "Intro", order |-> -1]}

\* a translate exercise under each stored lesson or under none, an mcq
\* exercise, and one of a type that is not allowed
ExercisePayloads(S) ==
    {[lesson_id |-> l, type |-> "translate", prompt |-> "Translate: Hola",
      options |-> None, answer |-> Hi] :
        l \in IdsOf(S, "lesson") \cup {Dangling}}
    \cup {[lesson_id |-> Dangling, type |-> ty, prompt |-> "Translate: Hola",
           options |-> Some(<<"Hi", "Bye">>), answer |-> Hi] :
              ty \in {"mcq", "cloze"}}

\* the exercises of the grading runs: under no lesson, two stored answers
GradedExercises ==
    {[lesson_id |-> Dangling, type |-> "translate",
      prompt |-> "Translate: Hola", options |-> None, answer |-> a] :
        a \in {Hi, <<"H", " ", "i">>}}

\* identifier strings that are not well formed: too short, too long, not
\* hexadecimal, empty
Malformed ==
    {Tail(str(FirstId)), Append(str(FirstId), "0"),
     [str(FirstId) EXCEPT ![1] = "g"], <<>>}

\* the stored exercises' identifiers and one no document has, in both cases
WellFormed(S) ==
    LET good == IdsOf(S, "exercise") \cup {str(S.nextId)}
    IN  good \cup {upper(s) : s \in good}

AnswerInputs ==
    {<<"h", "i">>, <<"H", "I", " ">>, <<"\n", "H", "i">>, <<"h", " ", "i">>,
     <<"h">>, <<>>,
     Hola, <<" ">> \o upper(Hola), ThankYou,
     <<"T", "h", "a", "n", "k", "y", "o", "u">>}

\* the requests of the grading runs
AnswerPayloads(S) ==
    {[exercise_id |-> e, answer |-> a, user_id |-> None] :
        e \in WellFormed(S) \cup Malformed, a \in AnswerInputs}

\* the answer requests that run in between the other requests
FewAnswerPayloads(S) ==
    {[exercise_id |-> e, answer |-> <<"h", "i">>, user_id |-> None] :
        e \in IdsOf(S, "exercise") \cup {Dangling}}

-----------------------------------------------------------------------------
(* The state machine.  req is the last request served, resp its response,  *)
(* calls the store calls it made; creates counts the documents the clients *)
(* created; seedRun counts the seed requests served back to back since a   *)
(* store without an "es" course; procs holds the frames of the seed        *)
(* requests that run concurrently.                                         *)

Clients == {"c1", "c2"}

Cur == Store(db, nextId)

HasSpanish(S) == find_one(S, "course", [code |-> "es"]) # None

Idle(left) == [f |-> [NewFrame EXCEPT !.pc = "idle"], left |-> left]

Init ==
    /\ db = [c \in Collections |-> <<>>]
    /\ nextId = FirstId
    /\ req = [op |-> "none"]
    /\ resp = [status |-> 0, body |-> <<>>]
    /\ calls = <<>>
    /\ creates = 0
    /\ seedRun = 0
    /\ procs = [p \in Clients |-> Idle(MaxSeedCalls)]

\* one request served from start to end
Serve(request, r) ==
    /\ db' = r.db
    /\ nextId' = r.nextId
    /\ req' = request
    /\ resp' = [status |-> r.status, body |-> r.body]
    /\ calls' = r.calls
    /\ UNCHANGED procs

\* a client's request, which creates at most one document
Client(request, r) ==
    /\ creates + (r.nextId - nextId) <= MaxCreates
    /\ Serve(request, r)
    /\ creates' = creates + (r.nextId - nextId)
    /\ seedRun' = 0

GetRoot == Client([op |-> "read_root"], read_root(Cur))

GetTest == Client([op |-> "test_database"], test_database(Cur))

PostUsers ==
    \E payload \in UserPayloads :
        Client([op |-> "create_user", payload |-> payload],
               create_user(Cur, payload))

GetCourses == Client([op |-> "list_courses"], list_courses(Cur))

PostCourses ==
    \E payload \in CoursePayloads :
        Client([op |-> "create_course", payload |-> payload],
               create_course(Cur, payload))

GetLessons ==
    \E course_id \in IdsOf(Cur, "course") \cup {Dangling} :
        Client([op |-> "list_lessons", course_id |-> course_id],
               list_lessons(Cur, course_id))

PostLessons ==
    \E payload \in LessonPayloads(Cur) :
        Client([op |-> "create_lesson", payload |-> payload],
               create_lesson(Cur, payload))

GetExercises ==
    \E lesson_id \in IdsOf(Cur, "lesson") \cup {Dangling} :
        Client([op |-> "list_exercises", lesson_id |-> lesson_id],
               list_exercises(Cur, lesson_id))

PostExercises ==
    \E payload \in ExercisePayloads(Cur) :
        Client([op |-> "create_exercise", payload |-> payload],
               create_exercise(Cur, payload))

PostAnswer ==
    \E payload \in FewAnswerPayloads(Cur) :
        Client([op |-> "submit_answer", payload |-> payload],
               submit_answer(Cur, payload))

\* a seed request served from start to end; the seeder's documents are not
\* counted in creates, so it runs while fewer than MaxSeeded are stored
MaxSeeded == 4 * (MaxSeedRun + 1)

PostSeed ==
    LET r == seed_demo(Cur)
    IN  /\ r.nextId - FirstId <= MaxCreates + MaxSeeded
        /\ Serve([op |-> "seed_demo"], r)
        /\ seedRun' = IF seedRun = 0
                      THEN (IF HasSpanish(Cur) THEN 0 ELSE 1)
                      ELSE (IF seedRun < MaxSeedRun THEN seedRun + 1
                                                    ELSE seedRun)
        /\ UNCHANGED creates

Next ==
    \/ GetRoot
    \/ GetTest
    \/ PostUsers
    \/ GetCourses
    \/ PostCourses
    \/ GetLessons
    \/ PostLessons
    \/ GetExercises
    \/ PostExercises
    \/ PostAnswer
    \/ PostSeed

Spec == Init /\ [][Next]_vars

-----------------------------------------------------------------------------
(* Grading: exercises are created and seeded, and answers of every sample  *)
(* shape are submitted for well-formed and malformed identifiers.          *)

PostGradedExercise ==
    \E payload \in GradedExercises :
        Client([op |-> "create_exercise", payload |-> payload],
               create_exercise(Cur, payload))

PostAnyAnswer ==
    \E payload \in AnswerPayloads(Cur) :
        Client([op |-> "submit_answer", payload |-> payload],
               submit_answer(Cur, payload))

GradeNext ==
    \/ PostGradedExercise
    \/ PostSeed
    \/ PostAnyAnswer

GradeSpec == Init /\ [][GradeNext]_vars

-----------------------------------------------------------------------------
(* Seed requests served in parallel: each store call is atomic, the calls  *)
(* of different requests interleave.                                       *)

SeedArrive(p) ==
    /\ procs[p].f.pc = "idle"
    /\ procs[p].left > 0
    /\ procs' = [procs EXCEPT ![p] = [f |-> NewFrame, left |-> @.left - 1]]
    /\ UNCHANGED <<db, nextId, req, resp, calls, creates, seedRun>>

SeedCall(p) ==
    /\ procs[p].f.pc \notin {"idle", "return"}
    /\ LET r == SeedStep(Cur, procs[p].f)
       IN  /\ db' = r.S.db
           /\ nextId' = r.S.nextId
           /\ procs' = [procs EXCEPT ![p].f = r.f]
    /\ UNCHANGED <<req, resp, calls, creates, seedRun>>

SeedDone(p) ==
    /\ procs[p].f.pc = "return"
    /\ procs' = [procs EXCEPT ![p].f.pc = "idle"]
    /\ UNCHANGED <<db, nextId, req, resp, calls, creates, seedRun>>

ConcNext == \E p \in Clients : SeedArrive(p) \/ SeedCall(p) \/ SeedDone(p)

ConcSpec == Init /\ [][ConcNext]_vars

-----------------------------------------------------------------------------
(* Vocabulary of the properties *)

SpanishCourses == {c \in Range(db["course"]) : c["code"] = "es"}

FirstLessons(c) ==
    {l \in Range(db["lesson"]) :
        l["course_id"] = str(c["_id"]) /\ l["order"] = 1}

ExercisesOf(l) ==
    {e \in Range(db["exercise"]) : e["lesson_id"] = str(l["_id"])}

\* one Spanish course, one first lesson under it, two exercises under that
SeededExactlyOnce ==
    /\ Cardinality(SpanishCourses) = 1
    /\ \A c \in SpanishCourses :
          /\ Cardinality(FirstLessons(c)) = 1
          /\ \A l \in FirstLessons(c) : Cardinality(ExercisesOf(l)) = 2

HexChars ==
    {"0", "1", "2", "3", "4", "5", "6", "7", "8", "9",
     "a", "b", "c", "d", "e", "f", "A", "B", "C", "D", "E", "F"}

\* a string in the store's identifier format
WellFormedId(s) == Len(s) = IdLen /\ \A i \in DOMAIN s : s[i] \in HexChars

\* the stored exercises a client's identifier string names
Named(s) ==
    {e \in Range(db["exercise"]) : WellFormedId(s) /\ str(e["_id"]) = lower(s)}

\* t is s without its leading and trailing whitespace
IsTrimOf(t, s) ==
    \E i \in 1 .. Len(s) + 1, j \in 0 .. Len(s) :
        /\ t = SubSeq(s, i, j)
        /\ \A k \in 1 .. Len(s) : (k < i \/ k > j) => s[k] \in Whitespace
        /\ t # <<>> => (t[1] \notin Whitespace /\ t[Len(t)] \notin Whitespace)

Trims(s) ==
    {t \in {SubSeq(s, i, j) : i \in 1 .. Len(s) + 1, j \in 0 .. Len(s)} :
        IsTrimOf(t, s)}

EqualTrimmedLowered(a, b) ==
    \E ta \in Trims(a), tb \in Trims(b) : lower(ta) = lower(tb)

ListOps == {"list_courses", "list_lessons", "list_exercises"}

ListedCollection(op) ==
    CASE op = "list_courses"   -> "course"
      [] op = "list_lessons"   -> "lesson"
      [] op = "list_exercises" -> "exercise"

ExerciseFields == {"lesson_id", "type", "prompt", "options", "answer"}

-----------------------------------------------------------------------------
(* C1.  Seed requests served back to back on a store that held no "es"     *)
(* course leave exactly one "es" course, exactly one order-1 lesson with   *)
(* that course's id and exactly two exercises with that lesson's id, and   *)
(* every seed request after the first inserts nothing.                     *)
C1_SeedIdempotent ==
    [][ /\ seedRun' >= 1 => SeededExactlyOnce'
        /\ seedRun' >= 2 => (db' = db /\ nextId' = nextId) ]_vars

\* the seeder has been served twice in a row on a store that held other
\* documents but no "es" course
C1_Witness ==
    /\ seedRun >= 2
    /\ req.op = "seed_demo"
    /\ creates > 0
    /\ "exercise.insert_many" \notin Range(calls)

(* C2.  A create_exercise request whose type is neither "mcq" nor          *)
(* "translate" is answered 400 "Invalid exercise type", makes no store     *)
(* call and leaves every collection as it was.                             *)
C2_InvalidTypeRejected ==
    [][ (req'.op = "create_exercise"
            /\ req'.payload.type \notin {"mcq", "translate"})
        => /\ resp'.status = 400
           /\ resp'.body = [detail |-> "Invalid exercise type"]
           /\ calls' = <<>>
           /\ db' = db
           /\ nextId' = nextId ]_vars

\* a request of type "cloze" was refused on a store that holds exercises
C2_Witness ==
    /\ req.op = "create_exercise"
    /\ req.payload.type = "cloze"
    /\ resp.status = 400
    /\ db["exercise"] # <<>>

C5_NotFound ==
    (/\ req.op = "submit_answer"
     /\ WellFormedId(req.payload.exercise_id)
     /\ Named(req.payload.exercise_id) = {})
    => /\ resp.status = 404
       /\ resp.body = [detail |-> "Exercise not found"]
       /\ DOMAIN resp.body \cap {"correct", "expected"} = {}

\* a well-formed identifier of no exercise was looked up, with exercises
\* stored, and not found
C5_Witness ==
    /\ req.op = "submit_answer"
    /\ WellFormedId(req.payload.exercise_id)
    /\ resp.status = 404
    /\ calls = <<"exercise.find_one">>
    /\ db["exercise"] # <<>>

(* C6.  The response of create_user has exactly the fields id, username,   *)
(* name, xp and streak, id being the string form of the new identifier,    *)
(* xp and streak 0; it does not carry the key "_id".                       *)
C6_UserResponse ==
    req.op = "create_user" =>
        /\ resp.status = 200
        /\ DOMAIN resp.body = {"id", "username", "name", "xp", "streak"}
        /\ "_id" \notin DOMAIN resp.body
        /\ resp.body["id"] = str(db["user"][Len(db["user"])]["_id"])
        /\ resp.body["username"] = req.payload.username
        /\ resp.body["name"] = req.payload.name
        /\ resp.body["xp"] = 0
        /\ resp.body["streak"] = 0

(* C7.  Every stored document carries the required fields of its entity,   *)
(* every stored exercise has type "mcq" or "translate", and user xp, user  *)
(* streak and lesson order are never negative.                             *)
C7_StoredDocumentsValid ==
    /\ \A u \in Range(db["user"]) :
          /\ {"username", "xp", "streak"} \subseteq DOMAIN u
          /\ u["xp"] >= 0
          /\ u["streak"] >= 0
    /\ \A c \in Range(db["course"]) :
          {"name", "code", "base_language"} \subseteq DOMAIN c
    /\ \A l \in Range(db["lesson"]) :
          /\ {"course_id", "title", "order"} \subseteq DOMAIN l
          /\ l["order"] >= 0
    /\ \A e \in Range(db["exercise"]) :
          /\ {"lesson_id", "type", "prompt", "answer"} \subseteq DOMAIN e
          /\ e["type"] \in {"mcq", "translate"}

(* C8.  Every item a list endpoint returns has the field id, the string    *)
(* form of the identifier of the stored document it shows, and has no key  *)
(* "_id".                                                                  *)
C8_ListShape ==
    req.op \in ListOps =>
        \A i \in DOMAIN resp.body :
            LET item == resp.body[i]
            IN  /\ "_id" \notin DOMAIN item
                /\ "id" \in DOMAIN item
                /\ Len(item["id"]) = IdLen
                /\ \E d \in Range(db[ListedCollection(req.op)]) :
                      /\ item["id"] = str(d["_id"])
                      /\ DOMAIN item = ((DOMAIN d) \ {"_id"}) \cup {"id"}
                      /\ \A k \in (DOMAIN d) \ {"_id"} : item[k] = d[k]

\* two stored exercises were listed under their lesson
C8_Witness ==
    /\ req.op = "list_exercises"
    /\ Len(resp.body) = 2
    /\ resp.body[1]["id"] # resp.body[2]["id"]

(* C9.  No request changes or removes a stored document, and an exercise   *)
(* created by create_exercise is, from then on, among the items            *)
(* list_exercises returns for its lesson_id, with the lesson_id, type,     *)
(* prompt, options and answer of the payload.  Stated step by step: a      *)
(* step keeps every stored document in place, a step that changes the      *)
(* store keeps every stored exercise listed (what is listed depends on the *)
(* store alone), and a successful create_exercise lists its payload.       *)
C9_ExercisesKept ==
    [][ /\ \A c \in Collections : \A i \in DOMAIN db[c] :
              i \in DOMAIN db'[c] /\ db'[c][i] = db[c][i]
        /\ db' # db =>
              \A e \in Range(db["exercise"]) :
                  \E item \in Range(list_exercises(Store(db', nextId'),
                                                   e["lesson_id"]).body) :
                      /\ item["id"] = str(e["_id"])
                      /\ \A k \in ExerciseFields \cap DOMAIN e :
                            item[k] = e[k]
        /\ (req'.op = "create_exercise" /\ resp'.status = 200
               /\ nextId' # nextId)
           => \E item \in Range(list_exercises(Store(db', nextId'),
                                               req'.payload.lesson_id).body) :
                  /\ item["id"] = resp'.body["id"]
                  /\ \A k \in ExerciseFields : item[k] = req'.payload[k] ]_vars

\* an exercise a client created is listed with its payload after the
\* seeder has run and stored its own
C9_Witness ==
    /\ req.op = "list_exercises"
    /\ SpanishCourses # {}
    /\ Len(db["exercise"]) >= 3
    /\ \E item \in Range(resp.body) :
          /\ item["id"] = str(db["exercise"][1]["_id"])
          /\ item["prompt"] = "Translate: Hola"
          /\ item["answer"] = Hi

(* C10.  With the store calls of two seeding clients interleaved, a state  *)
(* is reached in which both have found the "es" course absent and the      *)
(* store holds two of them; however many seed requests the clients send,   *)
(* the copies of a fixture never outnumber the clients.                    *)
C10_RaceBounded ==
    /\ Cardinality(SpanishCourses) <= Cardinality(Clients)
    /\ \A c \in SpanishCourses :
          /\ Cardinality(FirstLessons(c)) <= Cardinality(Clients)
          /\ \A l \in FirstLessons(c) :
                Cardinality(ExercisesOf(l)) <= 2 * Cardinality(Clients)

\* both clients decided "absent" and the store holds two "es" courses
C10_Witness ==
    /\ \A p \in Clients :
          /\ procs[p].f.pc \notin {"idle", "find_course", "insert_course"}
          /\ procs[p].f.course = None
    /\ Cardinality(SpanishCourses) > 1

====
